---- MODULE Spec2Model ----
(***************************************************************************)
(* Model of src/main.py: one run of main(), i.e. the pipeline              *)
(*   install_ffmpeg -> get_verses_data -> create_video (combine_audios,    *)
(*   clip loop, write_videofile) -> post_to_instagram.                     *)
(* The program is single-threaded; pc is the position of the one thread.   *)
(* The network, ffmpeg, the font/image library, the encoder and the        *)
(* Instagram client are external: each call's outcome is a choice (\E).    *)
(* Durations are kept in tenths of a second, so that 0.4 s per word is the *)
(* integer 4; CONFIG's seconds are multiplied by 10 where compared.        *)
(***************************************************************************)
EXTENDS Integers, Sequences, FiniteSets, TLC

\* ---------------------------------------------------------------- bounds
\* longest page the API returns in the model (the URL asks per_page=7)
MaxVerses == 2
\* longest downloaded recitation, in tenths of a second
MaxAudioLen == 950

\* ---------------------------------------------------------------- CONFIG
api_retries == 5
min_duration == 30
max_duration == 90

\* chapters.CHAPTER_NAMES: the keys of the known-chapter mapping
CHAPTER_NAMES == 1..114

\* Python's None where a file path is expected
None == <<"None", 0>>

\* an item without chapter_id: verse.get('chapter_id') is None, which is falsy like 0
NoChapter == 0

VARIABLES
  pc,             \* position of the thread
  api,            \* environment: "down" = the content API answers every GET with HTTP 500
  attempt,        \* get_verses_data: loop variable
  waited,         \* get_verses_data: seconds slept since the previous attempt ended
  page_verses,    \* get_verses_data: verses (the shuffled page)
  idx,            \* index of the for loop in progress (1-based)
  collected,      \* get_verses_data: collected
  total_duration, \* total_duration of the function in progress (tenths of a second)
  verses,         \* main: verses (create_video adds audio_path to each)
  temp_files,     \* combine_audios / create_video: temp_files
  audio_path,     \* create_video: audio_path
  clips,          \* create_video: clips, each [start, duration]
  current_time,   \* create_video: current_time
  video_path,     \* main: video_path
  video_duration, \* duration of the file written by write_videofile
  disk,           \* the files that exist, as <<kind, number>>
  audio_len,      \* length of the audio content of each file that has one
  calls,          \* the stages main has invoked, in order
  logged          \* the logger.error / logger.warning messages emitted

vars == <<pc, api, attempt, waited, page_verses, idx, collected, total_duration,
          verses, temp_files, audio_path, clips, current_time, video_path,
          video_duration, disk, audio_len, calls, logged>>

\* ---------------------------------------------------------------- helpers
Max(a, b) == IF a >= b THEN a ELSE b
Min(a, b) == IF a <= b THEN a ELSE b

RECURSIVE Pow2(_)
Pow2(n) == IF n = 0 THEN 1 ELSE 2 * Pow2(n - 1)

RECURSIVE SumDur(_)
SumDur(s) == IF s = <<>> THEN 0 ELSE s[1].duration + SumDur(Tail(s))

RECURSIVE SumLen(_, _)
SumLen(files, len) ==
  IF files = <<>> THEN 0 ELSE len[files[1]] + SumLen(Tail(files), len)

\* the files of the run
Mp3(i) == <<"mp3", i>>
Jpg(i) == <<"jpg", i>>
ListFile == <<"list", 0>>
CombinedAudio == <<"combined_audio.mp3", 0>>
FinalReel == <<"final_reel.mp4", 0>>
SessionFile == <<"session", 0>>

\* ------------------------------------------------- the content API's items
\* words: the number of whitespace-separated words of text_uthmani
WordCounts == {5, 60, 120, 230}

\* what an item of data['verses'] can look like: chapter_id NoChapter models a
\* missing key, 999 an id that CHAPTER_NAMES does not have; has_fields is
\* whether text_uthmani, translations and verse_number are all present;
\* has_translation is whether the translations list has a first element
ApiVerses ==
  [chapter_id : {2}, has_fields : {TRUE}, has_translation : {TRUE}, words : WordCounts]
  \cup [chapter_id : {NoChapter, 999}, has_fields : {TRUE}, has_translation : {TRUE}, words : {60}]
  \cup [chapter_id : {2}, has_fields : {FALSE}, has_translation : {FALSE}, words : {60}]
  \cup [chapter_id : {2}, has_fields : {TRUE}, has_translation : {FALSE}, words : {60}]

Pages == UNION {[1..n -> ApiVerses] : n \in 0..MaxVerses}

\* random.shuffle(verses): any reordering of the page
Shuffles(p) ==
  {[i \in 1..Len(p) |-> p[f[i]]] :
     f \in {g \in [1..Len(p) -> 1..Len(p)] : \A i, j \in 1..Len(p) : g[i] = g[j] => i = j}}

\* what requests.get(quran_api) can produce
Responses == IF api = "down" THEN {"500"}
             ELSE {"error", "404", "500", "not_json", "bad_format", "page"}

\* line 92: the item is skipped
UnknownChapterNoLookup(verse) == verse.chapter_id = NoChapter
UnknownChapter(verse) ==
  verse.chapter_id = NoChapter \/ verse.chapter_id \notin CHAPTER_NAMES

\* line 96
MissingFields(verse) == ~verse.has_fields

\* lines 112-113: max(3, word_count * 0.4), in tenths of a second
Duration(words) == Max(30, words * 4)

\* lines 99-113
VerseData(verse) ==
  [surah_number |-> verse.chapter_id, words |-> verse.words,
   duration |-> Duration(verse.words), audio_path |-> None]

\* line 115
ExceedsMaxNever(total, d) == FALSE
ExceedsMax(total, d) == total + d > max_duration * 10

\* line 121
ReachedMin(total) == total >= min_duration * 10

\* ------------------------------------------------------------------- Init
\* a fresh working directory; the Instagram session file of an earlier run
\* may or may not be there
Init ==
  /\ pc = "main"
  /\ api \in {"up", "down"}
  /\ attempt = 0
  /\ waited = 0
  /\ page_verses = <<>>
  /\ idx = 1
  /\ collected = <<>>
  /\ total_duration = 0
  /\ verses = <<>>
  /\ temp_files = <<>>
  /\ audio_path = None
  /\ clips = <<>>
  /\ current_time = 0
  /\ video_path = None
  /\ video_duration = 0
  /\ disk \in {{}, {SessionFile}}
  /\ audio_len = [f \in {} |-> 0]
  /\ calls = <<>>
  /\ logged = {}

videoVars == <<temp_files, audio_path, clips, current_time, video_path,
               video_duration, disk, audio_len>>

\* --------------------------------------------------------------- main, 1
\* lines 276-280: install_ffmpeg() (no effect on the state modelled), then
\* the call of get_verses_data
MainStart ==
  /\ pc = "main"
  /\ pc' = "attempt"
  /\ calls' = Append(calls, "get_verses_data")
  /\ attempt' = 0
  /\ UNCHANGED <<api, waited, page_verses, idx, collected, total_duration,
                 verses, videoVars, logged>>

\* --------------------------------------------------------- get_verses_data
\* lines 128-130: the except clause, then the next iteration of the for
\* (the locals of the failed attempt are dead and are cleared)
FetchExcept ==
  /\ logged' = logged \cup {"Attempt failed"}
  /\ waited' = Pow2(attempt)
  /\ attempt' = attempt + 1
  /\ pc' = "attempt"
  /\ page_verses' = <<>>
  /\ idx' = 1
  /\ collected' = <<>>
  /\ total_duration' = 0

\* lines 64-88: one attempt up to the start of the for loop over the verses
Attempt ==
  /\ pc = "attempt"
  /\ attempt < api_retries
  /\ \E r \in Responses :
       IF r = "page"
       THEN /\ \E p \in Pages : \E s \in Shuffles(p) : page_verses' = s
            /\ collected' = <<>>
            /\ total_duration' = 0
            /\ idx' = 1
            /\ pc' = "verse_loop"
            /\ UNCHANGED <<attempt, waited, logged>>
       ELSE FetchExcept
  /\ UNCHANGED <<api, verses, videoVars, calls>>

\* lines 90-122: one iteration of the for loop over the shuffled verses
VerseStep ==
  /\ pc = "verse_loop"
  /\ idx <= Len(page_verses)
  /\ LET verse == page_verses[idx]
         d == Duration(verse.words)
     IN  IF UnknownChapter(verse) \/ MissingFields(verse)
         THEN /\ idx' = idx + 1
              /\ UNCHANGED <<pc, collected, total_duration, attempt, waited,
                             page_verses, logged>>
         ELSE IF ~verse.has_translation
         THEN FetchExcept       \* verse['translations'][0] raises
         ELSE IF ExceedsMax(total_duration, d)
         THEN /\ pc' = "after_loop"
              /\ UNCHANGED <<idx, collected, total_duration, attempt, waited,
                             page_verses, logged>>
         ELSE /\ collected' = Append(collected, VerseData(verse))
              /\ total_duration' = total_duration + d
              /\ IF ReachedMin(total_duration + d)
                 THEN pc' = "after_loop" /\ idx' = idx
                 ELSE pc' = "verse_loop" /\ idx' = idx + 1
              /\ UNCHANGED <<attempt, waited, page_verses, logged>>
  /\ UNCHANGED <<api, verses, videoVars, calls>>

\* the for loop over the verses runs out
VerseLoopEnd ==
  /\ pc = "verse_loop"
  /\ idx > Len(page_verses)
  /\ pc' = "after_loop"
  /\ UNCHANGED <<api, attempt, waited, page_verses, idx, collected,
                 total_duration, verses, videoVars, calls, logged>>

\* lines 124-126: return collected, or fall through to the next attempt
\* without sleeping
AfterLoop ==
  /\ pc = "after_loop"
  /\ IF collected # <<>>
     THEN /\ verses' = collected
          /\ pc' = "check_verses"
          /\ attempt' = 0
          /\ waited' = 0
     ELSE /\ attempt' = attempt + 1
          /\ waited' = 0
          /\ pc' = "attempt"
          /\ UNCHANGED verses
  /\ page_verses' = <<>>
  /\ idx' = 1
  /\ collected' = <<>>
  /\ total_duration' = 0
  /\ UNCHANGED <<api, videoVars, calls, logged>>

\* lines 132-133: the retries are used up
FetchGiveUp ==
  /\ pc = "attempt"
  /\ attempt >= api_retries
  /\ logged' = logged \cup {"Failed to fetch verses after retries"}
  /\ verses' = <<>>
  /\ pc' = "check_verses"
  /\ attempt' = 0
  /\ waited' = 0
  /\ UNCHANGED <<api, page_verses, idx, collected, total_duration, videoVars, calls>>

\* --------------------------------------------------------------- main, 2
\* line 281
NoVersesNever(v) == FALSE
NoVerses(v) == v = <<>>

\* lines 281-286: return when nothing was fetched, else call create_video,
\* which calls combine_audios at once (line 211)
MainCheckVerses ==
  /\ pc = "check_verses"
  /\ IF NoVerses(verses)
     THEN /\ logged' = logged \cup {"No verses collected"}
          /\ pc' = "done"
          /\ UNCHANGED <<calls, idx, temp_files>>
     ELSE /\ calls' = Append(calls, "create_video")
          /\ pc' = "download"
          /\ idx' = 1
          /\ temp_files' = <<>>
          /\ UNCHANGED logged
  /\ UNCHANGED <<api, attempt, waited, page_verses, collected, total_duration,
                 verses, audio_path, clips, current_time, video_path,
                 video_duration, disk, audio_len>>

\* ---------------------------------------------------------- combine_audios
\* lengths a downloaded recitation can have, in tenths of a second
AudioLens == {20, 400, MaxAudioLen}

Range(s) == {s[i] : i \in 1..Len(s)}

\* the file f now has audio of length n
WithLen(len, f, n) ==
  [g \in DOMAIN len \cup {f} |-> IF g = f THEN n ELSE len[g]]

\* the lengths of the files that are left
Restrict(len, files) == [g \in DOMAIN len \cap files |-> len[g]]

\* lines 184-188 with download_audio (135-149): one iteration of the loop.
\* "request_failed": head/get raised, no file; "write_failed": the temporary
\* file was created and writing it raised; both return None
DownloadStep ==
  /\ pc = "download"
  /\ idx <= Len(verses)
  /\ \E outcome \in {"request_failed", "write_failed", "ok"} :
       IF outcome = "ok"
       THEN \E n \in AudioLens :
              /\ disk' = disk \cup {Mp3(idx)}
              /\ audio_len' = WithLen(audio_len, Mp3(idx), n)
              /\ verses' = [verses EXCEPT ![idx].audio_path = Mp3(idx)]
              /\ temp_files' = Append(temp_files, Mp3(idx))
              /\ UNCHANGED logged
       ELSE /\ disk' = IF outcome = "write_failed" THEN disk \cup {Mp3(idx)} ELSE disk
            /\ logged' = logged \cup {"Audio download failed"}
            /\ UNCHANGED <<audio_len, verses, temp_files>>
  /\ idx' = idx + 1
  /\ UNCHANGED <<pc, api, attempt, waited, page_verses, collected, total_duration,
                 audio_path, clips, current_time, video_path, video_duration, calls>>

\* what ffmpeg -f concat can do: with an empty manifest it has no input and fails
FfmpegOutcomes(files) ==
  IF files = <<>> THEN {"failed", "failed_partial"}
  ELSE {"ok", "failed", "failed_partial"}

\* lines 191-207, then lines 211-213 of create_video: the manifest is
\* written, ffmpeg runs; on failure combine_audios returns (None, []) and
\* create_video returns None to main
CombineFfmpeg ==
  /\ pc = "download"
  /\ idx > Len(verses)
  /\ \E outcome \in FfmpegOutcomes(temp_files) :
       IF outcome = "ok"
       THEN /\ disk' = disk \cup {ListFile, CombinedAudio}
            /\ audio_len' = WithLen(audio_len, CombinedAudio, SumLen(temp_files, audio_len))
            /\ audio_path' = CombinedAudio
            /\ temp_files' = Append(temp_files, ListFile)
            /\ pc' = "open_audio"
            /\ UNCHANGED <<logged, video_path>>
       ELSE /\ disk' = IF outcome = "failed_partial"
                       THEN disk \cup {ListFile, CombinedAudio}
                       ELSE disk \cup {ListFile}
            /\ logged' = logged \cup {"Audio combining failed"}
            /\ audio_path' = None
            /\ temp_files' = <<>>
            /\ video_path' = None
            /\ pc' = "check_video"
            /\ UNCHANGED audio_len
  /\ idx' = 1
  /\ UNCHANGED <<api, attempt, waited, page_verses, collected, total_duration,
                 verses, clips, current_time, video_duration, calls>>

\* ------------------------------------------------------------ create_video
\* lines 247-251: the finally clause
Cleanup(d) == d \ ({audio_path} \cup Range(temp_files))

\* create_video is left: its locals are gone
LeaveCreateVideo(d) ==
  /\ disk' = Cleanup(d)
  /\ audio_len' = Restrict(audio_len, Cleanup(d))
  /\ audio_path' = None
  /\ temp_files' = <<>>
  /\ clips' = <<>>
  /\ current_time' = 0
  /\ total_duration' = 0
  /\ idx' = 1

\* an exception in the try block of create_video: the finally clause runs
\* and main's except logs it (lines 297-298)
CreateVideoRaises(d) ==
  /\ LeaveCreateVideo(d)
  /\ logged' = logged \cup {"Critical error"}
  /\ pc' = "done"
  /\ UNCHANGED <<video_path, video_duration>>

\* lines 216-220: AudioFileClip(audio_path) and the loop's initialisation
OpenAudio ==
  /\ pc = "open_audio"
  /\ \E outcome \in {"ok", "raises"} :
       IF outcome = "ok"
       THEN /\ total_duration' = audio_len[audio_path]
            /\ clips' = <<>>
            /\ current_time' = 0
            /\ idx' = 1
            /\ pc' = "clip_loop"
            /\ UNCHANGED <<temp_files, audio_path, video_path, video_duration,
                           disk, audio_len, logged>>
       ELSE CreateVideoRaises(disk)
  /\ UNCHANGED <<api, attempt, waited, page_verses, collected, verses, calls>>

\* line 224
ClipDurationWhole(d, total, now) == d
ClipDuration(d, total, now) == Min(d, total - now)

\* lines 222-231 with create_verse_image (156-177): one iteration.
\* "font_error": truetype raised before the temporary file was created;
\* "save_error": the file was created and img.save raised
ClipStep ==
  /\ pc = "clip_loop"
  /\ idx <= Len(verses)
  /\ \E outcome \in {"ok", "font_error", "save_error"} :
       IF outcome = "ok"
       THEN LET clip_duration == ClipDuration(verses[idx].duration, total_duration, current_time)
            IN  /\ disk' = disk \cup {Jpg(idx)}
                /\ clips' = Append(clips, [start |-> current_time, duration |-> clip_duration])
                /\ current_time' = current_time + clip_duration
                /\ IF current_time + clip_duration >= total_duration
                   THEN pc' = "write" /\ idx' = idx
                   ELSE pc' = "clip_loop" /\ idx' = idx + 1
                /\ UNCHANGED <<total_duration, temp_files, audio_path, video_path,
                               video_duration, audio_len, logged>>
       ELSE CreateVideoRaises(IF outcome = "save_error" THEN disk \cup {Jpg(idx)} ELSE disk)
  /\ UNCHANGED <<api, attempt, waited, page_verses, collected, verses, calls>>

\* the for loop over the verses runs out
ClipLoopEnd ==
  /\ pc = "clip_loop"
  /\ idx > Len(verses)
  /\ pc' = "write"
  /\ UNCHANGED <<api, attempt, waited, page_verses, idx, collected, total_duration,
                 verses, videoVars, calls, logged>>

\* lines 233-251: the composite of duration total_duration is encoded to
\* final_reel.mp4 and the finally clause runs; "raises_partial": the encoder
\* failed after it had created the output file
WriteVideo ==
  /\ pc = "write"
  /\ \E outcome \in {"ok", "raises", "raises_partial"} :
       IF outcome = "ok"
       THEN /\ LeaveCreateVideo(disk \cup {FinalReel})
            /\ video_path' = FinalReel
            /\ video_duration' = total_duration
            /\ pc' = "check_video"
            /\ UNCHANGED logged
       ELSE CreateVideoRaises(IF outcome = "raises_partial" THEN disk \cup {FinalReel} ELSE disk)
  /\ UNCHANGED <<api, attempt, waited, page_verses, collected, verses, calls>>

\* --------------------------------------------------------------- main, 3
\* line 288
VideoReadyAlways(path, d) == TRUE
VideoReady(path, d) == path # None /\ path \in d

\* lines 288-295
MainCheckVideo ==
  /\ pc = "check_video"
  /\ IF VideoReady(video_path, disk)
     THEN /\ calls' = Append(calls, "post_to_instagram")
          /\ pc' = "post"
          /\ UNCHANGED logged
     ELSE /\ logged' = logged \cup {"Video creation failed"}
          /\ pc' = "done"
          /\ UNCHANGED calls
  /\ UNCHANGED <<api, attempt, waited, page_verses, idx, collected, total_duration,
                 verses, videoVars>>

\* lines 253-272 and 290-293: with no session file the bot logs in and saves
\* one; "login_failed" can only happen then; any exception gives False
PostToInstagram ==
  /\ pc = "post"
  /\ \E outcome \in (IF SessionFile \in disk THEN {} ELSE {"login_failed"})
                      \cup {"uploaded", "upload_failed"} :
       /\ disk' = IF outcome = "login_failed" THEN disk ELSE disk \cup {SessionFile}
       /\ logged' = IF outcome = "uploaded" THEN logged
                    ELSE logged \cup {"Posting failed", "Failed to post"}
  /\ pc' = "done"
  /\ UNCHANGED <<api, attempt, waited, page_verses, idx, collected, total_duration,
                 verses, temp_files, audio_path, clips, current_time, video_path,
                 video_duration, audio_len, calls>>

Next ==
  \/ MainStart
  \/ Attempt
  \/ VerseStep
  \/ VerseLoopEnd
  \/ AfterLoop
  \/ FetchGiveUp
  \/ MainCheckVerses
  \/ DownloadStep
  \/ CombineFfmpeg
  \/ OpenAudio
  \/ ClipStep
  \/ ClipLoopEnd
  \/ WriteVideo
  \/ MainCheckVideo
  \/ PostToInstagram

Spec == Init /\ [][Next]_vars

\* ================================================================ claims
Called(stage) == stage \in Range(calls)

\* the intermediate files of create_video
Intermediate ==
  {Mp3(i) : i \in 1..MaxVerses} \cup {Jpg(i) : i \in 1..MaxVerses}
    \cup {ListFile, CombinedAudio}

CreateVideoFinished ==
  Called("create_video") /\ pc \in {"check_video", "post", "done"}

\* C1: whenever create_video has finished (path returned, None returned or
\* exception raised), none of the per-verse audio files, the manifest, the
\* per-verse images or combined_audio.mp3 is left on disk.
C1_NoIntermediateFileLeft ==
  CreateVideoFinished => disk \cap Intermediate = {}

\* C2: when attempt k+1 of get_verses_data starts, the fetcher has waited
\* exactly 2^k seconds since attempt k, whatever made attempt k yield no
\* collection; and there are never more than api_retries attempts.
C2_BackoffBeforeEveryRetry ==
  /\ attempt <= api_retries
  /\ (pc = "attempt" /\ attempt >= 1 /\ attempt < api_retries)
        => waited = Pow2(attempt - 1)

\* how far a run with a failing API has come: every step must raise it, and
\* it is at most api_retries + 3
Progress == CASE pc = "main" -> 0
              [] pc = "attempt" -> 1 + attempt
              [] pc = "check_verses" -> api_retries + 2
              [] pc = "done" -> api_retries + 3
              [] OTHER -> 0

\* C3: if the API answers every attempt with HTTP 500, get_verses_data ends
\* (every step brings the run nearer to its end) after api_retries attempts,
\* returns [] without raising, and main logs an error and ends without
\* calling create_video or post_to_instagram and without touching a file.
C3_AllHttp500 ==
  /\ [](api = "down" =>
          /\ pc \in {"main", "attempt", "check_verses", "done"}
          /\ attempt <= api_retries
          /\ ~Called("create_video") /\ ~Called("post_to_instagram")
          /\ disk \subseteq {SessionFile}
          /\ pc \in {"check_verses", "done"} =>
               /\ verses = <<>>
               /\ "Failed to fetch verses after retries" \in logged
               /\ "Critical error" \notin logged
          /\ pc = "done" => "No verses collected" \in logged)
  /\ [][api = "down" => Progress' > Progress]_vars

C3_Witness ==
  api = "down" /\ pc = "done" /\ calls = <<"get_verses_data">>

\* C4: a video that create_video returns is at most max_duration long.
C4_VideoWithinMaxDuration ==
  video_path # None => video_duration <= max_duration * 10

\* C5: in the clip loop each clip starts at the sum of the durations of
\* the clips before it (so the offsets do not decrease), is held for
\* min(verse duration, audio duration - offset), and the clips' durations
\* sum to no more than the audio duration.
C5_ClipOffsets ==
  pc \in {"clip_loop", "write"} =>
    /\ \A i \in 1..Len(clips) :
         /\ clips[i].start = SumDur(SubSeq(clips, 1, i - 1))
         /\ clips[i].duration =
              Min(verses[i].duration, total_duration - clips[i].start)
         /\ clips[i].duration >= 0
         /\ i > 1 => clips[i].start >= clips[i - 1].start
    /\ current_time = SumDur(clips)
    /\ SumDur(clips) <= total_duration

\* two clips, the second one cut short by the end of the audio
C5_Witness ==
  /\ pc = "write"
  /\ Len(clips) >= 2
  /\ clips[2].start > 0
  /\ clips[2].duration < verses[2].duration

\* C6: at the end of every run of main, final_reel.mp4 is not on disk.
C6_FinalVideoDeleted ==
  pc = "done" => FinalReel \notin disk

\* C7: if download_audio returned None for a verse, create_video returns
\* None, no video file is written and nothing is published.
C7_FailedDownloadAborts ==
  (CreateVideoFinished /\ \E i \in 1..Len(verses) : verses[i].audio_path = None)
     => /\ video_path = None
        /\ FinalReel \notin disk
        /\ ~Called("post_to_instagram")

\* C8: a verse whose chapter_id is missing or not in CHAPTER_NAMES is
\* skipped: the iteration that meets it leaves collected and total_duration
\* as they are, and no collected verse has such a chapter.
C8_UnknownChapterSkipped ==
  /\ [](\A i \in 1..Len(collected) : collected[i].surah_number \in CHAPTER_NAMES)
  /\ [][(/\ pc = "verse_loop"
         /\ idx <= Len(page_verses)
         /\ page_verses[idx].chapter_id \notin CHAPTER_NAMES)
          => /\ collected' = collected
             /\ total_duration' = total_duration
             /\ pc' = "verse_loop" /\ idx' = idx + 1]_vars

\* a verse of chapter 999 was passed over and another one was collected
C8_Witness ==
  /\ pc = "after_loop"
  /\ collected # <<>>
  /\ \E i \in 1..Len(page_verses) : i < idx /\ page_verses[i].chapter_id = 999

\* C9: in the loop over a page, total_duration is the sum of the estimated
\* durations max(3, 0.4 * words) of the collected verses and is at most
\* max_duration; the loop goes on only below min_duration, so the total
\* without the last collected verse is below min_duration; the same holds
\* of every non-empty list returned.
C9_GreedyAccumulation ==
  /\ pc \in {"verse_loop", "after_loop"} =>
       /\ total_duration = SumDur(collected)
       /\ total_duration <= max_duration * 10
       /\ \A i \in 1..Len(collected) :
            collected[i].duration = Max(30, 4 * collected[i].words)
       /\ pc = "verse_loop" => total_duration < min_duration * 10
       /\ collected # <<>> =>
            total_duration - collected[Len(collected)].duration < min_duration * 10
  /\ verses # <<>> =>
       /\ SumDur(verses) <= max_duration * 10
       /\ SumDur(verses) - verses[Len(verses)].duration < min_duration * 10

\* the loop stopped because the next verse would exceed max_duration
C9_Witness ==
  /\ pc = "after_loop"
  /\ collected # <<>>
  /\ total_duration < min_duration * 10
  /\ idx <= Len(page_verses)
  /\ total_duration + Duration(page_verses[idx].words) > max_duration * 10

Pipeline == <<"get_verses_data", "create_video", "post_to_instagram">>

Stage(p) ==
  CASE p = "main" -> 0
    [] p \in {"attempt", "verse_loop", "after_loop"} -> 1
    [] p = "check_verses" -> 2
    [] p \in {"download", "open_audio", "clip_loop", "write"} -> 3
    [] p = "check_video" -> 4
    [] p = "post" -> 5
    [] p = "done" -> 6

\* C10: main calls get_verses_data, create_video and post_to_instagram at
\* most once each and in this order; create_video only with a non-empty
\* list, post_to_instagram only with a path whose file exists; the run
\* never goes back to an earlier stage.
C10_LinearPipeline ==
  /\ [](/\ calls = SubSeq(Pipeline, 1, Len(calls))
        /\ Called("create_video") => verses # <<>>)
  /\ [][/\ Stage(pc') >= Stage(pc)
        /\ (calls' # calls /\ calls'[Len(calls')] = "create_video")
              => verses # <<>>
        /\ (calls' # calls /\ calls'[Len(calls')] = "post_to_instagram")
              => (video_path # None /\ video_path \in disk)]_vars

C10_Witness ==
  pc = "done" /\ calls = Pipeline /\ FinalReel \in disk

====
